---- MODULE Spec2Model ----
(***************************************************************************)
(* Model of the vendor-analysis NetSuite sync engine:                      *)
(*   - NetSuiteClient (netsuite/client.py) with its auth providers         *)
(*     (netsuite/auth.py, netsuite/auth_tba.py): SpecClient                *)
(*   - sync_command (cli/sync.py) driving the SuiteQL paginated fetch      *)
(*     (netsuite/queries.py) into the local store (db/models.py): Spec,    *)
(*     and its restrictions SpecIncr, SpecFetch, SpecUpsert (no failure)   *)
(*     and SpecPaging (arbitrary hasMore flags); init_database             *)
(*     (db/session.py) may recreate the tables between two invocations     *)
(*   - merge_custom_fields (netsuite/field_processor.py) applied by the    *)
(*     upsert of one record over consecutive syncs: SpecMerge              *)
(*   - process_vendor_fields / process_vendor_bill_fields                  *)
(*     (netsuite/field_processor.py, core/field_config.py): SpecClassify   *)
(***************************************************************************)
EXTENDS Integers, Sequences, FiniteSets, TLC

VARIABLES
    \* ---- client (netsuite/client.py, netsuite/auth*.py)
    authMethod,     \* settings.yaml_config.application.auth_method
    max_retries,    \* settings.max_retries
    retry_delay,    \* settings.retry_delay
    time,           \* wall clock read by time.time(), seconds
    token,          \* OAuth2AuthProvider._token
    tokenSeq,       \* number of tokens issued by the token endpoint
    authCalls,      \* number of get_auth_headers invocations so far
    nreq,           \* number of client operations started
    rpc,            \* position of the running client operation
    req,            \* the running client operation: [op, method]
    attempt,        \* loop variable of _request
    headers,        \* local variable headers of _request
    last_error,     \* local variable last_error of _request
    events,         \* what the running operation did, in order
    result,         \* how the operation ended
    wire,           \* every HTTP call ever sent: set of [method, target]
    \* ---- sync (cli/sync.py, netsuite/queries.py, db/models.py)
    batch_size,     \* settings.batch_size
    upstreamN,      \* per entity type, the number of upstream records
    db,             \* committed rows of the vendors / transactions tables
    meta,           \* committed rows of the sync_metadata table
    clock,          \* datetime.now(), one tick per invocation
    pc,             \* position of sync_command
    cur,            \* the entity type whose sync is running
    run,            \* arguments and locals of the running invocation
    fetched,        \* vendor_data_list / bill_data_list
    offset,         \* local variable offset of the paginated fetch
    procIdx,        \* number of fetched records already processed
    sess,           \* the session's uncommitted view of the current table
    outcome,        \* how the last invocation ended
    nFetched,       \* per type, len(data_list) of this invocation (-1: none)
    scope,          \* entity types this invocation is asked to sync
    stagesRun,      \* entity types whose sync was started in this invocation
    failedStage,    \* entity type whose sync raised in this invocation
    metaAtStart,    \* sync_metadata when the invocation started
    hwmAtStart,     \* per type, MAX(created_date) when the invocation started
    upstreamMod,    \* per type and record, the upstream lastmodifieddate
    \* ---- custom fields of one record (netsuite/field_processor.py)
    custom_fields,  \* the record's stored custom_fields (JSONB)
    now,            \* sync_timestamp of the last sync, in half days
    nsyncs,         \* number of syncs of the record so far
    payload,        \* the custom fields the last sync supplied
    prev,           \* custom_fields before the last sync
    initial,        \* custom_fields before the first sync
    firstSupplied,  \* per field, the time of the first sync that supplied it
    \* ---- field classification (netsuite/field_processor.py)
    rtype,          \* the entity type of the raw record
    raw_data,       \* the raw record: field name -> value
    known,          \* known_fields returned by the classifier
    custom,         \* custom_fields returned by the classifier
    classified      \* has the classifier run on raw_data

clientVars == <<authMethod, max_retries, retry_delay, time, token, tokenSeq,
                authCalls, nreq, rpc, req, attempt, headers, last_error,
                events, result, wire>>

syncVars == <<batch_size, upstreamN, db, meta, clock, pc, cur, run, fetched,
              offset, procIdx, sess, outcome, nFetched, scope, stagesRun,
              failedStage, metaAtStart, hwmAtStart, upstreamMod>>

mergeVars == <<custom_fields, now, nsyncs, payload, prev, initial,
              firstSupplied>>

classVars == <<rtype, raw_data, known, custom, classified>>

vars == <<clientVars, syncVars, mergeVars, classVars>>

(***************************************************************************)
(* Bounds of the model                                                     *)
(***************************************************************************)
MaxRetriesCfg == 4      \* settings.max_retries ranges over 0..MaxRetriesCfg
MaxDelayCfg == 2        \* settings.retry_delay ranges over 1..MaxDelayCfg
MaxRequests == 2        \* client operations per behaviour
MaxClock == 90          \* the clock is advanced by Tick up to here

(***************************************************************************)
(* Program constants                                                       *)
(***************************************************************************)
ALLOWED_HTTP_METHODS == {"GET"}
TOKEN_EXPIRY_BUFFER == 60

NoToken == [none |-> TRUE]
NoHeaders == [none |-> TRUE]
NoError == "none"

Methods == {"GET", "get", "POST", "PUT", "DELETE"}
Outcomes == {"200", "4xx", "5xx", "neterr"}
ExpiresIn == {60, 90}
ClockSteps == {30}

\* str.upper() on the method names the model uses
Upper(m) == IF m = "get" THEN "GET" ELSE m

\* OAuth2Token.is_expired
is_expired_NoBuffer(tok) == time >= tok.expires_at
is_expired(tok) == time >= tok.expires_at - TOKEN_EXPIRY_BUFFER

\* OAuth2AuthProvider.get_access_token: is a token exchange needed
NeedsToken == IF token = NoToken THEN TRUE ELSE is_expired(token)

\* OAuth2AuthProvider._request_new_token succeeded: the token it returns
NewToken(expires_in) ==
    [access_token |-> tokenSeq + 1, expires_at |-> time + expires_in]

\* get_auth_headers of the configured provider succeeded.  exp is the
\* expires_in of the token response when an exchange is made.
AuthOk(exp) ==
    /\ authCalls' = authCalls + 1
    /\ IF authMethod = "oauth2" /\ NeedsToken
       THEN /\ token' = NewToken(exp)
            /\ tokenSeq' = tokenSeq + 1
            /\ wire' = wire \cup {[method |-> "POST", target |-> "token"]}
       ELSE UNCHANGED <<token, tokenSeq, wire>>

\* get_auth_headers failed: only the token exchange can fail.
AuthFail ==
    /\ authMethod = "oauth2" /\ NeedsToken
    /\ authCalls' = authCalls + 1
    /\ wire' = wire \cup {[method |-> "POST", target |-> "token"]}
    /\ UNCHANGED <<token, tokenSeq>>

\* the headers returned by the call that has just been made
AuthHeaders ==
    IF authMethod = "tba"
    THEN [scheme |-> "OAuth", nonce |-> authCalls', timestamp |-> time]
    ELSE [scheme |-> "Bearer", nonce |-> token'.access_token, timestamp |-> 0]

\* NetSuiteClient._enforce_read_only: does the method pass
enforce_read_only_AllowAll(method) == TRUE
enforce_read_only(method) == Upper(method) \in ALLOWED_HTTP_METHODS

HttpEvent(method, target, hdr, status) ==
    [type |-> "http", method |-> Upper(method), target |-> target,
     hdr |-> hdr, status |-> status, secs |-> 0]
SleepEvent(secs) ==
    [type |-> "sleep", method |-> "", target |-> "", hdr |-> NoHeaders,
     status |-> "", secs |-> secs]
AuthEvent(method) ==
    [type |-> "auth", method |-> Upper(method), target |-> "", hdr |-> NoHeaders,
     status |-> "", secs |-> 0]

\* the linear backoff of _request
wait_time_Exponential(att) == retry_delay * (2 ^ att)
wait_time(att) == retry_delay * (att + 1)

\* _request: is the exception raised for this resp caught by
\* `except httpx.HTTPError` (NetSuiteAPIError is not an httpx.HTTPError)
Retryable_AnyFailure(resp) == resp # "200"
Retryable(resp) == resp = "neterr"


(***************************************************************************)
(* The store, the upstream and the sync invocation: data                   *)
(***************************************************************************)
MaxRecords == 3         \* upstream vendors
MaxBills == 1           \* upstream vendor bills
MaxRuns == 2            \* invocations of sync_command per behaviour
MaxRevs == 1            \* upstream modifications of one record

Types == {"vendor", "vendorbill"}
\* the values settings.batch_size takes in the model
BatchSizes == {1, 2}
\* the values --limit takes in the model; 0 stands for None, which
\* `if limit and ...` does not tell from 0
Limits == {0, 1, 2}
Min2(a, b) == IF a <= b THEN a ELSE b
Ids == 1..MaxRecords
\* how many records of an entity type the upstream may come to hold
Capacity(t) == IF t = "vendor" THEN MaxRecords ELSE Min2(MaxBills, MaxRecords)

\* a row of VendorRecord / TransactionRecord (the columns the sync decides)
NoRow == [present |-> FALSE, created_date |-> 0, last_modified_date |-> 0,
          raw_data |-> 0, synced_at |-> 0, schema_version |-> 0]
EmptyTable == [i \in Ids |-> NoRow]

\* a row of SyncMetadata
NoMeta == [present |-> FALSE, last_sync_timestamp |-> 0, sync_status |-> "",
           records_synced |-> 0, is_full_sync |-> FALSE]

NoRun == [vendors_only |-> FALSE, transactions_only |-> FALSE, full |-> FALSE,
          limit |-> 0, dry_run |-> FALSE, sync_timestamp |-> 0,
          max_created |-> [t \in Types |-> 0]]

\* upstream record i was created on day (i+1)/2, at 9h or at 15h: records are
\* numbered in creation order and two of them share a day
Created(i) == [day |-> (i + 1) \div 2, hour |-> IF i % 2 = 1 THEN 9 ELSE 15]
\* the datetime of a creation time, in hours
Stamp(c) == c.day * 24 + c.hour
\* max_date.strftime("%Y-%m-%d"): the day of a datetime
strftime_day_NextDay(stamp) == stamp \div 24 + 1
strftime_day(stamp) == stamp \div 24
\* TO_DATE('<day>', 'YYYY-MM-DD'): midnight of that day
TO_DATE_EndOfDay(day) == day * 24 + 24
TO_DATE(day) == day * 24

SetMax(S) == CHOOSE x \in S : \A y \in S : y <= x

\* session.query(func.max(<Record>.created_date)).scalar(); 0 stands for None
MaxCreated(table) ==
    LET S == {table[i].created_date : i \in {j \in Ids : table[j].present}}
    IN IF S = {} THEN 0 ELSE SetMax(S)

\* the high-water mark a non-full invocation resumes from; 0 stands for None
Cursor(table) ==
    IF MaxCreated(table) = 0 THEN 0 ELSE strftime_day(MaxCreated(table))

\* the rows the SuiteQL query of the paginated fetch selects, in its order:
\* WHERE datecreated >= TO_DATE(cursor) ORDER BY datecreated ASC
QueryResult(t, cursor) ==
    LET all == [i \in 1..upstreamN[t] |-> i]
        Sel(i) == cursor = 0 \/ Stamp(Created(i)) >= TO_DATE(cursor)
    IN SelectSeq(all, Sel)

\* one page of the query: items and hasMore of the response envelope
Page(q, off, size) == SubSeq(q, off + 1, Min2(off + size, Len(q)))
hasMore(q, off, size) == off + size < Len(q)

\* the upsert of one fetched record (sync.py: existing / new branch)
UpdatedRow_DropsCreated(row, i) ==
    [row EXCEPT !.created_date = 0,
                !.last_modified_date = upstreamMod[cur][i],
                !.raw_data = upstreamMod[cur][i],
                !.synced_at = run.sync_timestamp,
                !.schema_version = run.sync_timestamp]
UpdatedRow_KeepsSnapshot(row, i) ==
    [row EXCEPT !.created_date = Stamp(Created(i)),
                !.last_modified_date = upstreamMod[cur][i],
                !.synced_at = run.sync_timestamp]
UpdatedRow(row, i) ==
    [row EXCEPT !.created_date = Stamp(Created(i)),
                !.last_modified_date = upstreamMod[cur][i],
                !.raw_data = upstreamMod[cur][i],
                !.synced_at = run.sync_timestamp,
                !.schema_version = run.sync_timestamp]
NewRow(i) ==
    [present |-> TRUE, created_date |-> Stamp(Created(i)),
     last_modified_date |-> upstreamMod[cur][i],
     raw_data |-> upstreamMod[cur][i],
     synced_at |-> run.sync_timestamp, schema_version |-> run.sync_timestamp]

\* the table after an invocation is aborted: the session's pending inserts
\* and updates were never committed
AfterAbort_KeepsPending(committed, pending) == pending
AfterAbort(committed, pending) == committed

\* the paginated fetch: `vendor_data_list = vendor_data_list[:limit]`
Truncated_Never(list, limit) == list
Truncated(list, limit) == SubSeq(list, 1, limit)

\* the paginated fetch: `offset += batch_size`
NextOffset_Stuck(off, size) == off
NextOffset(off, size) == off + size

\* sync.py: `if dry_run: ... else:` - are the fetched records stored
Stores_Always(dry_run) == TRUE
Stores(dry_run) == ~dry_run

\* sync.py: "Update sync metadata ONLY if we actually synced records"
WritesMeta_Always(n) == TRUE
WritesMeta(n) == n > 0

\* the SyncMetadata row a completed sync of the current type writes
MetaRow(n) ==
    [present |-> TRUE, last_sync_timestamp |-> run.sync_timestamp,
     sync_status |-> "completed", records_synced |-> n,
     is_full_sync |-> (run.full \/ run.max_created[cur] = 0)]

\* the sync variables before any invocation
SyncQuiet ==
    /\ upstreamN = [t \in Types |-> 0]
    /\ db = [t \in Types |-> EmptyTable]
    /\ meta = [t \in Types |-> NoMeta]
    /\ clock = 0
    /\ pc = "idle"
    /\ cur = "vendor"
    /\ run = NoRun
    /\ fetched = <<>>
    /\ offset = 0
    /\ procIdx = 0
    /\ sess = EmptyTable
    /\ outcome = "none"
    /\ nFetched = [t \in Types |-> -1]
    /\ scope = {}
    /\ stagesRun = {}
    /\ failedStage = "none"
    /\ metaAtStart = [t \in Types |-> NoMeta]
    /\ hwmAtStart = [t \in Types |-> 0]
    /\ upstreamMod = [t \in Types |-> [i \in Ids |-> 0]]

\* the client variables before any operation
ClientQuiet ==
    /\ time = 0
    /\ token = NoToken
    /\ tokenSeq = 0
    /\ authCalls = 0
    /\ nreq = 0
    /\ rpc = "idle"
    /\ req = [op |-> "none", method |-> "GET"]
    /\ attempt = 0
    /\ headers = NoHeaders
    /\ last_error = NoError
    /\ events = <<>>
    /\ result = "none"
    /\ wire = {}

(***************************************************************************)
(* Field classification: data and the two classifiers                      *)
(***************************************************************************)
\* core/field_config.py
VENDOR_KNOWN_FIELDS ==
    {"id", "entityId", "companyName", "legalName", "email", "phone", "fax",
     "url", "isInactive", "isPerson", "balance", "balancePrimary",
     "creditLimit", "unbilledOrders", "unbilledOrdersPrimary", "currency",
     "terms", "category", "subsidiary", "dateCreated", "lastModifiedDate",
     "taxIdNum", "taxRegistrationList", "accountNumber", "addressBook",
     "contactList", "currencyList", "subscriptionsList", "rolesList",
     "comments", "printOnCheckAs", "altName", "defaultAddress", "billPay",
     "eligibleForCommission", "emailPreference", "emailTransactions",
     "printTransactions", "faxTransactions", "representingSubsidiary",
     "workCalendar", "giveAccess", "sendEmail", "password",
     "requirePwdChange", "inheritIPRules", "globalSubscriptionStatus"}
VENDOR_BILL_KNOWN_FIELDS ==
    {"id", "tranId", "entity", "tranDate", "dueDate", "createdDate",
     "lastModifiedDate", "userTotal", "total", "amountRemaining",
     "exchangeRate", "currency", "status", "approvalStatus", "subsidiary",
     "memo", "tranStatus"}
KnownFields(t) ==
    IF t = "vendor" THEN VENDOR_KNOWN_FIELDS ELSE VENDOR_BILL_KNOWN_FIELDS

\* the field names a raw record of the model may carry: both spellings of
\* known fields (SuiteQL lowercase, Record API camelCase), a reference, a
\* custom field, the links metadata
VendorNames ==
    {"id", "entityId", "entityid", "legalName", "legalname", "currency",
     "custentity_region", "links"}
BillNames ==
    {"id", "tranId", "tranid", "approvalStatus", "approvalstatus", "memo",
     "custbody_dept", "links"}
NamesOf(t) == IF t = "vendor" THEN VendorNames ELSE BillNames

\* str.lower() on the field names of the model
Lower(k) ==
    CASE k = "entityId" -> "entityid"
      [] k = "legalName" -> "legalname"
      [] k = "tranId" -> "tranid"
      [] k = "approvalStatus" -> "approvalstatus"
      [] OTHER -> k

\* the values of the model: a string, null, a reference object
Str(chars) == [str |-> chars]
NullValue == [null |-> TRUE]
RefObject == [id |-> "1", refName |-> "USD"]
\* the string a field carries when it carries one
StringOf(k) ==
    IF k = "currency" THEN Str("USD")
    ELSE IF k = "links" THEN Str("href")
    ELSE IF k = "id" THEN Str("7")
    ELSE Str("x")
\* the fields that may carry null, the fields that may carry a reference
Nullable(S) == S \ {"id", "links"}
References(S) == S \cap {"currency"}

\* the raw records of type t: a record carries one spelling of a field
RawRecords(t) ==
    LET Sets == {S \in SUBSET NamesOf(t) :
                    \A k1, k2 \in S : Lower(k1) = Lower(k2) => k1 = k2}
        Over(S) == {[k \in S |-> IF k \in Z THEN NullValue
                                 ELSE IF k \in R THEN RefObject
                                 ELSE StringOf(k)] :
                       Z \in SUBSET Nullable(S), R \in SUBSET References(S)}
    IN UNION {Over(S) : S \in Sets}

\* process_vendor_fields, lines 53-67: SuiteQL lowercase -> camelCase
normalize_vendor(k) ==
    CASE Lower(k) = "entityid" -> "entityId"
      [] Lower(k) = "companyname" -> "companyName"
      [] Lower(k) = "isinactive" -> "isInactive"
      [] Lower(k) = "datecreated" -> "dateCreated"
      [] Lower(k) = "lastmodifieddate" -> "lastModifiedDate"
      [] OTHER -> k

\* process_vendor_bill_fields, lines 133-151
normalize_bill(k) ==
    CASE Lower(k) = "tranid" -> "tranId"
      [] Lower(k) = "trandate" -> "tranDate"
      [] Lower(k) = "duedate" -> "dueDate"
      [] Lower(k) = "createddate" -> "createdDate"
      [] Lower(k) = "lastmodifieddate" -> "lastModifiedDate"
      [] Lower(k) = "usertotal" -> "userTotal"
      [] Lower(k) = "exchangerate" -> "exchangeRate"
      [] OTHER -> k
normalize(t, k) == IF t = "vendor" THEN normalize_vendor(k) ELSE normalize_bill(k)

\* the key of known_fields a handled known field is stored under; "" for a
\* known field no branch of the if/elif chain handles
vendor_column(c) ==
    CASE c = "id" -> "id"
      [] c = "entityId" -> "entity_id"
      [] c = "companyName" -> "company_name"
      [] c = "email" -> "email"
      [] c = "phone" -> "phone"
      [] c = "isInactive" -> "is_inactive"
      [] c = "balance" -> "balance"
      [] c = "currency" -> "currency"
      [] c = "terms" -> "terms"
      [] c = "dateCreated" -> "created_date"
      [] c = "lastModifiedDate" -> "last_modified_date"
      [] OTHER -> ""
bill_column(c) ==
    CASE c = "id" -> "id"
      [] c = "entity" -> "vendor_id"
      [] c = "tranId" -> "tran_id"
      [] c = "createdDate" -> "created_date"
      [] c = "lastModifiedDate" -> "last_modified_date"
      [] c = "tranDate" -> "tran_date"
      [] c = "dueDate" -> "due_date"
      [] c = "userTotal" -> "amount"
      [] c = "currency" -> "currency"
      [] c = "status" -> "status"
      [] c = "exchangeRate" -> "exchange_rate"
      [] c = "memo" -> "memo"
      [] OTHER -> ""
column(t, c) == IF t = "vendor" THEN vendor_column(c) ELSE bill_column(c)

\* extract_reference_value
extract_reference_value(v) ==
    IF v = RefObject THEN Str(v.refName) ELSE v

\* the value stored for a handled known field.  str(value) if value else
\* "" (entityId), ... else None (companyName, tranId, memo), str(value) (id)
known_value(c, v) ==
    CASE c = "id" -> v
      [] c = "entityId" -> (IF v = NullValue THEN Str("") ELSE v)
      [] c = "currency" -> extract_reference_value(v)
      [] OTHER -> v

\* the value stored for a custom field
custom_value(v) == IF v = RefObject THEN extract_reference_value(v) ELSE v

\* the canonical names of the raw record after normalisation, metadata
\* skipped
Canonical(t, r) == {normalize(t, k) : k \in DOMAIN r} \ {"links", "refName"}
\* the spelling the raw record carries a canonical name under
Spelling(t, r, c) == CHOOSE k \in DOMAIN r : normalize(t, k) = c

\* process_vendor_fields / process_vendor_bill_fields
process_fields(t, r) ==
    LET names == Canonical(t, r)
        kn == {c \in names : c \in KnownFields(t) /\ column(t, c) # ""}
        cu == {c \in names : c \notin KnownFields(t)}
        col == {column(t, c) : c \in kn}
    IN [known |-> [o \in col |->
                     LET c == CHOOSE c \in kn : column(t, c) = o
                     IN known_value(c, r[Spelling(t, r, c)])],
        custom |-> [c \in cu |-> custom_value(r[Spelling(t, r, c)])]]

\* the classifier variables when no record is classified
ClassQuiet ==
    /\ rtype = "vendor"
    /\ raw_data = [k \in {} |-> 0]
    /\ known = [k \in {} |-> 0]
    /\ custom = [k \in {} |-> 0]
    /\ classified = FALSE

(***************************************************************************)
(* The custom fields of one record: data and merge_custom_fields           *)
(***************************************************************************)
MaxSyncs == 3           \* syncs of the record per behaviour

\* field_processor.py: `if days_since_seen > 30`
DEPRECATION_DAYS == 30

\* the custom field names and the values the upstream supplies for them
Fields == {"region", "tier"}
FieldValues(f) == IF f = "region" THEN {"West", "East"} ELSE {"A"}
\* the time between two syncs of the record, in half days: 12 hours,
\* 30 days, 31 days (30 days and 12 hours is two syncs apart)
Gaps == {1, 60, 62}

\* the keys of an entry with lifecycle metadata
MetaKeys == {"value", "first_seen", "last_seen", "deprecated"}

\* custom_fields is None (no row yet, or a NULL column)
NoFields == [none |-> TRUE]
\* the dict {}
EmptyMap == [f \in {} |-> 0]

\* datetime.isoformat() and datetime.fromisoformat(): date part, time part
NoIso == <<>>
isoformat(t) == <<t \div 2, t % 2>>
fromisoformat(iso) == iso[1] * 2 + iso[2]
\* (a - b).days of two datetimes: the whole days of the difference
timedelta_days(a, b) == (a - b) \div 2

\* a stored value of a custom field: a legacy flat value that is no dict, a
\* legacy flat value that is a dict, an entry with lifecycle metadata
FlatValue(v) ==
    [isdict |-> FALSE, keys |-> {}, value |-> v, first_seen |-> NoIso,
     last_seen |-> NoIso, deprecated |-> FALSE]
BareDict(v) ==
    [isdict |-> TRUE, keys |-> {}, value |-> v, first_seen |-> NoIso,
     last_seen |-> NoIso, deprecated |-> FALSE]
FieldEntry(v, first, last, dep) ==
    [isdict |-> TRUE, keys |-> MetaKeys, value |-> v, first_seen |-> first,
     last_seen |-> last, deprecated |-> dep]

\* the payloads a sync may supply: any subset of the fields, with values
Payloads ==
    {p \in UNION {[S -> {"West", "East", "A"}] : S \in SUBSET Fields} :
        \A f \in DOMAIN p : p[f] \in FieldValues(f)}

\* custom_fields of a record before its first sync with lifecycle metadata
InitialStores ==
    {NoFields} \cup
    {m \in UNION {[S -> {FlatValue("West"), BareDict("ref"), FlatValue("A")}]
                     : S \in SUBSET Fields} :
        \A f \in DOMAIN m :
            IF f = "region" THEN m[f] \in {FlatValue("West"), BareDict("ref")}
                            ELSE m[f] = FlatValue("A")}

\* merge_custom_fields: set(existing.keys()) | set(new.keys())
all_fields_NewOnly(existing, new) == DOMAIN new
all_fields(existing, new) == DOMAIN existing \cup DOMAIN new

\* merge_custom_fields: existing[field].get("first_seen", now)
preserved_first_seen_LastSeen(entry, ts) ==
    IF "last_seen" \in entry.keys THEN entry.last_seen ELSE ts
preserved_first_seen_Now(entry, ts) == ts
preserved_first_seen(entry, ts) ==
    IF "first_seen" \in entry.keys THEN entry.first_seen ELSE ts

\* merge_custom_fields: `if days_since_seen > 30`
is_stale_Never(days) == FALSE
is_stale_AtLeast(days) == days >= DEPRECATION_DAYS
is_stale(days) == days > DEPRECATION_DAYS

\* merge_custom_fields, the branch `if field in new`
present_entry_KeepsLastSeen(existing, new, field, ts) ==
    FieldEntry(new[field], ts,
               IF field \in DOMAIN existing /\ existing[field].isdict
                  /\ "last_seen" \in existing[field].keys
               THEN existing[field].last_seen
               ELSE ts,
               FALSE)
present_entry(existing, new, field, ts) ==
    FieldEntry(new[field],
               IF field \in DOMAIN existing /\ existing[field].isdict
               THEN preserved_first_seen(existing[field], ts)
               ELSE ts,
               ts, FALSE)

\* merge_custom_fields, the branch of a field missing from new
missing_entry(entry, sync_timestamp) ==
    IF entry.isdict
    THEN IF "last_seen" \in entry.keys
            /\ is_stale(timedelta_days(sync_timestamp,
                                       fromisoformat(entry.last_seen)))
         THEN [entry EXCEPT !.deprecated = TRUE,
                            !.keys = entry.keys \cup {"deprecated"}]
         ELSE entry
    ELSE FieldEntry(entry.value, isoformat(sync_timestamp),
                    isoformat(sync_timestamp), TRUE)

merge_custom_fields(existing, new, sync_timestamp) ==
    LET ex == IF existing = NoFields THEN EmptyMap ELSE existing
        ts == isoformat(sync_timestamp)
    IN [field \in all_fields(ex, new) |->
           IF field \in DOMAIN new
           THEN present_entry(ex, new, field, ts)
           ELSE missing_entry(ex[field], sync_timestamp)]

\* the custom-field variables when no record is followed
MergeQuiet ==
    /\ custom_fields = NoFields
    /\ now = 0
    /\ nsyncs = 0
    /\ payload = EmptyMap
    /\ prev = NoFields
    /\ initial = NoFields
    /\ firstSupplied = [f \in Fields |-> -1]

InitClient ==
    /\ authMethod \in {"tba", "oauth2"}
    /\ max_retries \in 0..MaxRetriesCfg
    /\ retry_delay \in 1..MaxDelayCfg
    /\ ClientQuiet
    /\ batch_size = 1
    /\ SyncQuiet
    /\ MergeQuiet
    /\ ClassQuiet

\* _request, lines 91-113: read-only check, URL, auth headers, loop entry.
\* get_record and query_records call it with "GET".
RequestStart(op, method, exp) ==
    /\ rpc \in {"idle", "done"}
    /\ nreq < MaxRequests
    /\ nreq' = nreq + 1
    /\ req' = [op |-> op, method |-> method]
    /\ attempt' = 0
    /\ last_error' = NoError
    /\ UNCHANGED <<authMethod, max_retries, retry_delay, time>>
    /\ IF ~enforce_read_only(method)
       THEN /\ result' = "ReadOnlyViolation"
            /\ rpc' = "done"
            /\ events' = <<>>
            /\ headers' = NoHeaders
            /\ UNCHANGED <<token, tokenSeq, authCalls, wire>>
       ELSE \/ /\ AuthOk(exp)
               /\ headers' = AuthHeaders
               /\ events' = <<AuthEvent(method)>>
               /\ IF max_retries <= 0
                  THEN result' = "ConnectionError" /\ rpc' = "done"
                  ELSE result' = "none" /\ rpc' = "loop"
            \/ /\ AuthFail
               /\ headers' = NoHeaders
               /\ events' = <<AuthEvent(method)>>
               /\ result' = "ConnectionError"
               /\ rpc' = "done"

\* _request, lines 115-152: one iteration of the retry loop
Attempt(resp) ==
    /\ rpc = "loop"
    /\ wire' = wire \cup {[method |-> Upper(req.method), target |-> "record"]}
    /\ UNCHANGED <<authMethod, max_retries, retry_delay, token, tokenSeq,
                   authCalls, nreq, req, headers>>
    /\ LET ev == HttpEvent(req.method, "record", headers, resp) IN
       IF resp = "200"
       THEN /\ result' = "ok"
            /\ rpc' = "done"
            /\ events' = Append(events, ev)
            /\ UNCHANGED <<attempt, last_error, time>>
       ELSE IF ~Retryable(resp)
       THEN /\ result' = "ApiError"
            /\ rpc' = "done"
            /\ events' = Append(events, ev)
            /\ UNCHANGED <<attempt, last_error, time>>
       ELSE /\ last_error' = resp
            /\ IF attempt < max_retries - 1
               THEN /\ events' = events \o <<ev, SleepEvent(wait_time(attempt))>>
                    /\ time' = time + wait_time(attempt)
                    /\ attempt' = attempt + 1
                    /\ UNCHANGED <<result, rpc>>
               ELSE /\ events' = Append(events, ev)
                    /\ result' = "ConnectionError"
                    /\ rpc' = "done"
                    /\ UNCHANGED <<attempt, time>>

\* query_suiteql: auth headers for POST, one POST, no retry loop
QuerySuiteql(resp, exp) ==
    /\ rpc \in {"idle", "done"}
    /\ nreq < MaxRequests
    /\ nreq' = nreq + 1
    /\ req' = [op |-> "query_suiteql", method |-> "POST"]
    /\ attempt' = 0
    /\ last_error' = NoError
    /\ rpc' = "done"
    /\ UNCHANGED <<authMethod, max_retries, retry_delay, time>>
    /\ \/ /\ authCalls' = authCalls + 1
          /\ IF authMethod = "oauth2" /\ NeedsToken
             THEN /\ token' = NewToken(exp)
                  /\ tokenSeq' = tokenSeq + 1
                  /\ wire' = wire \cup {[method |-> "POST", target |-> "token"],
                                        [method |-> "POST", target |-> "suiteql"]}
             ELSE /\ wire' = wire \cup {[method |-> "POST", target |-> "suiteql"]}
                  /\ UNCHANGED <<token, tokenSeq>>
          /\ headers' = AuthHeaders
          /\ events' = <<AuthEvent("POST"),
                         HttpEvent("POST", "suiteql", AuthHeaders, resp)>>
          /\ result' = CASE resp = "200" -> "ok"
                         [] resp = "neterr" -> "HTTPError"
                         [] OTHER -> "ApiError"
       \/ /\ AuthFail
          /\ headers' = NoHeaders
          /\ events' = <<AuthEvent("POST")>>
          /\ result' = "ConnectionError"

\* the wall clock advances between client operations
Tick(d) ==
    /\ rpc \in {"idle", "done"}
    /\ time + d <= MaxClock
    /\ time' = time + d
    /\ UNCHANGED <<authMethod, max_retries, retry_delay, token, tokenSeq,
                   authCalls, nreq, rpc, req, attempt, headers, last_error,
                   events, result, wire>>

DoRequest ==
    /\ \E m \in Methods, exp \in ExpiresIn : RequestStart("_request", m, exp)
    /\ UNCHANGED <<syncVars, mergeVars, classVars>>
DoGetRecord ==
    /\ \E exp \in ExpiresIn : RequestStart("get_record", "GET", exp)
    /\ UNCHANGED <<syncVars, mergeVars, classVars>>
DoQueryRecords ==
    /\ \E exp \in ExpiresIn : RequestStart("query_records", "GET", exp)
    /\ UNCHANGED <<syncVars, mergeVars, classVars>>
DoAttempt ==
    /\ \E o \in Outcomes : Attempt(o)
    /\ UNCHANGED <<syncVars, mergeVars, classVars>>
DoQuerySuiteql ==
    /\ \E o \in Outcomes, exp \in ExpiresIn : QuerySuiteql(o, exp)
    /\ UNCHANGED <<syncVars, mergeVars, classVars>>
DoTick ==
    /\ \E d \in ClockSteps : Tick(d)
    /\ UNCHANGED <<syncVars, mergeVars, classVars>>

NextClient ==
    \/ DoRequest
    \/ DoGetRecord
    \/ DoQueryRecords
    \/ DoAttempt
    \/ DoQuerySuiteql
    \/ DoTick

SpecClient == InitClient /\ [][NextClient]_vars

(***************************************************************************)
(* sync_command (cli/sync.py) with the paginated fetch (netsuite/queries.py)*)
(***************************************************************************)
\* control passes to the sync of entity type t
GoStage(t, ran) ==
    /\ pc' = "fetch"
    /\ cur' = t
    /\ fetched' = <<>>
    /\ offset' = 0
    /\ procIdx' = 0
    /\ sess' = db'[t]
    /\ stagesRun' = ran \cup {t}
    /\ UNCHANGED <<outcome, failedStage>>

\* sync_command returns (session.close(), "Sync complete")
GoFinish(ran) ==
    /\ pc' = "ended"
    /\ outcome' = "ok"
    /\ fetched' = <<>>
    /\ offset' = 0
    /\ procIdx' = 0
    /\ sess' = EmptyTable
    /\ stagesRun' = ran
    /\ UNCHANGED <<cur, failedStage>>

\* the sync of the current type is over: the transactions follow the vendors
EndStage ==
    IF cur = "vendor" /\ ~run.vendors_only
    THEN GoStage("vendorbill", stagesRun)
    ELSE GoFinish(stagesRun)

\* an exception leaves sync_command (nothing in it catches), or the process
\* dies: the session's uncommitted changes and the locals are lost
Leave(how) ==
    /\ pc' = "ended"
    /\ outcome' = how
    /\ failedStage' = cur
    /\ fetched' = <<>>
    /\ offset' = 0
    /\ UNCHANGED procIdx
    /\ sess' = EmptyTable
    /\ run' = NoRun
    /\ nFetched' = [t \in Types |-> -1]
    /\ metaAtStart' = meta
    /\ db' = [db EXCEPT ![cur] = AfterAbort(db[cur], sess)]
    /\ hwmAtStart' = [t \in Types |-> MaxCreated(db'[t])]
    /\ UNCHANGED <<upstreamMod, batch_size, upstreamN, meta, clock, cur, scope,
                   stagesRun>>

\* sync_command, lines 56-104: timestamps and high-water marks
StartSync(vendors_only, transactions_only, full, limit, dry_run) ==
    /\ pc = "idle"
    /\ clock < MaxRuns
    /\ clock' = clock + 1
    /\ run' = [vendors_only |-> vendors_only,
               transactions_only |-> transactions_only,
               full |-> full, limit |-> limit, dry_run |-> dry_run,
               sync_timestamp |-> clock + 1,
               max_created |->
                 [t \in Types |->
                    IF full THEN 0
                    ELSE IF t = "vendor"
                         THEN (IF transactions_only THEN 0 ELSE Cursor(db[t]))
                         ELSE (IF vendors_only THEN 0 ELSE Cursor(db[t]))]]
    /\ metaAtStart' = meta
    /\ hwmAtStart' = [t \in Types |-> MaxCreated(db[t])]
    /\ nFetched' = [t \in Types |-> -1]
    /\ scope' = {t \in Types : IF t = "vendor" THEN ~transactions_only
                                               ELSE ~vendors_only}
    /\ UNCHANGED <<upstreamMod, batch_size, upstreamN, db, meta>>
    /\ IF ~transactions_only
       THEN GoStage("vendor", {}) /\ failedStage' = "none"
       ELSE IF ~vendors_only
       THEN GoStage("vendorbill", {}) /\ failedStage' = "none"
       ELSE GoFinish({}) /\ failedStage' = "none"

\* fetch_all_vendors_suiteql / fetch_vendor_bills_suiteql: one iteration of
\* the while loop.  items: the page of the response.  more: the hasMore
\* flag of the response envelope.
FetchLoop(items, more) ==
    /\ pc = "fetch"
    /\ UNCHANGED <<upstreamMod, batch_size, upstreamN, db, meta, clock, run, scope,
                   metaAtStart, hwmAtStart>>
    /\ LET list == fetched \o items
           limited == run.limit # 0 /\ Len(list) >= run.limit
           final == IF limited THEN Truncated(list, run.limit) ELSE list
           stop == \/ items = <<>>
                   \/ limited
                   \/ ~more
       IN IF ~stop
          THEN /\ fetched' = list
               /\ offset' = NextOffset(offset, batch_size)
               /\ UNCHANGED <<pc, cur, procIdx, sess, outcome, nFetched,
                              stagesRun, failedStage>>
          ELSE /\ nFetched' = [nFetched EXCEPT ![cur] = Len(final)]
               /\ IF ~Stores(run.dry_run)
                  THEN EndStage
                  ELSE /\ pc' = "process"
                       /\ fetched' = final
                       /\ procIdx' = 0
                       /\ UNCHANGED <<cur, offset, sess, outcome, stagesRun,
                                      failedStage>>

\* a page of an upstream whose envelope is truthful; blank: the upstream
\* answers 200 with no items
FetchPage(blank) ==
    LET q == QueryResult(cur, run.max_created[cur])
    IN FetchLoop(IF blank THEN <<>> ELSE Page(q, offset, batch_size),
                 hasMore(q, offset, batch_size))

\* a page of an upstream whose hasMore flag takes any value
FetchPageAny(more) ==
    FetchLoop(Page(QueryResult(cur, run.max_created[cur]), offset, batch_size),
              more)

\* query_suiteql raises: NetSuiteAPIError on a non-200 answer, the raw
\* httpx error on a network failure
FetchFail(how) ==
    /\ pc = "fetch"
    /\ Leave(how)

\* sync_command, lines 151-186: the upsert of the next fetched record
ProcessRecord ==
    /\ pc = "process"
    /\ procIdx < Len(fetched)
    /\ LET i == fetched[procIdx + 1] IN
       sess' = [sess EXCEPT ![i] = IF sess[i].present
                                   THEN UpdatedRow(sess[i], i)
                                   ELSE NewRow(i)]
    /\ procIdx' = procIdx + 1
    /\ UNCHANGED <<upstreamMod, batch_size, upstreamN, db, meta, clock, pc, cur, run,
                   fetched, offset, outcome, nFetched, scope, stagesRun,
                   failedStage, metaAtStart, hwmAtStart>>

\* sync_command, lines 188-195: the one session.commit() of the records
Commit ==
    /\ pc = "process"
    /\ procIdx = Len(fetched)
    /\ db' = [db EXCEPT ![cur] = sess]
    /\ UNCHANGED <<upstreamMod, batch_size, upstreamN, meta, clock, run, nFetched, scope,
                   metaAtStart, hwmAtStart>>
    /\ IF WritesMeta(Len(fetched))
       THEN /\ pc' = "meta"
            /\ UNCHANGED <<cur, fetched, offset, procIdx, sess, outcome,
                           stagesRun, failedStage>>
       ELSE EndStage

\* sync_command, lines 196-213: the SyncMetadata row and its commit
MetaUpdate ==
    /\ pc = "meta"
    /\ meta' = [meta EXCEPT ![cur] = MetaRow(Len(fetched))]
    /\ UNCHANGED <<upstreamMod, batch_size, upstreamN, db, clock, run, nFetched, scope,
                   metaAtStart, hwmAtStart>>
    /\ EndStage

\* a store failure while processing or committing (a raw SQLAlchemy error)
DbFail ==
    /\ pc \in {"process", "meta"}
    /\ Leave("SQLAlchemyError")

\* the process is terminated in the middle of an invocation
Kill ==
    /\ pc \in {"fetch", "process", "meta"}
    /\ Leave("killed")

\* the caller has seen how the invocation ended; nothing of it is kept but
\* the store
Return ==
    /\ pc = "ended"
    /\ pc' = "idle"
    /\ cur' = "vendor"
    /\ run' = NoRun
    /\ outcome' = "none"
    /\ nFetched' = [t \in Types |-> -1]
    /\ scope' = {}
    /\ stagesRun' = {}
    /\ failedStage' = "none"
    /\ metaAtStart' = meta
    /\ hwmAtStart' = [t \in Types |-> MaxCreated(db[t])]
    /\ procIdx' = 0
    /\ UNCHANGED <<upstreamMod, batch_size, upstreamN, db, meta, clock, fetched, offset,
                   sess>>

\* a record is created upstream between two invocations
UpstreamAppend(t) ==
    /\ pc = "idle"
    /\ upstreamN[t] < Capacity(t)
    /\ upstreamN' = [upstreamN EXCEPT ![t] = upstreamN[t] + 1]
    /\ UNCHANGED <<upstreamMod, batch_size, db, meta, clock, pc, cur, run, fetched, offset,
                   procIdx, sess, outcome, nFetched, scope, stagesRun,
                   failedStage, metaAtStart, hwmAtStart>>

\* a record is modified upstream between two invocations: its
\* lastmodifieddate moves on, its datecreated stays
UpstreamModify(t, i) ==
    /\ pc = "idle"
    /\ i <= upstreamN[t]
    /\ upstreamMod[t][i] < MaxRevs
    /\ upstreamMod' = [upstreamMod EXCEPT ![t][i] = upstreamMod[t][i] + 1]
    /\ UNCHANGED <<batch_size, upstreamN, db, meta, clock, pc, cur, run,
                   fetched, offset, procIdx, sess, outcome, nFetched, scope,
                   stagesRun, failedStage, metaAtStart, hwmAtStart>>

\* db/session.py, init_database (the command init-db [--recreate]) between
\* two invocations: create_all leaves existing tables as they are; with
\* drop_existing, drop_all first removes vendors, transactions and
\* sync_metadata with all their rows
init_database(drop_existing) ==
    /\ pc = "idle"
    /\ db' = IF drop_existing THEN [t \in Types |-> EmptyTable] ELSE db
    /\ meta' = IF drop_existing THEN [t \in Types |-> NoMeta] ELSE meta
    /\ metaAtStart' = meta'
    /\ hwmAtStart' = [t \in Types |-> MaxCreated(db'[t])]
    /\ UNCHANGED <<upstreamMod, batch_size, upstreamN, clock, pc, cur, run,
                   fetched, offset, procIdx, sess, outcome, nFetched, scope,
                   stagesRun, failedStage>>

Init ==
    /\ authMethod = "tba"
    /\ max_retries = 1
    /\ retry_delay = 1
    /\ ClientQuiet
    /\ batch_size \in BatchSizes
    /\ SyncQuiet
    /\ MergeQuiet
    /\ ClassQuiet

DoStartSync ==
    /\ \E vo, to, full, dry \in BOOLEAN, limit \in Limits :
          StartSync(vo, to, full, limit, dry)
    /\ UNCHANGED <<clientVars, mergeVars, classVars>>
DoFetchPage ==
    /\ \E blank \in BOOLEAN : FetchPage(blank)
    /\ UNCHANGED <<clientVars, mergeVars, classVars>>
DoFetchFail ==
    /\ \E how \in {"ApiError", "HTTPError"} : FetchFail(how)
    /\ UNCHANGED <<clientVars, mergeVars, classVars>>
DoProcessRecord == ProcessRecord /\ UNCHANGED <<clientVars, mergeVars, classVars>>
DoCommit == Commit /\ UNCHANGED <<clientVars, mergeVars, classVars>>
DoMetaUpdate == MetaUpdate /\ UNCHANGED <<clientVars, mergeVars, classVars>>
DoDbFail == DbFail /\ UNCHANGED <<clientVars, mergeVars, classVars>>
DoKill == Kill /\ UNCHANGED <<clientVars, mergeVars, classVars>>
DoReturn == Return /\ UNCHANGED <<clientVars, mergeVars, classVars>>
DoUpstreamAppend ==
    /\ \E t \in Types : UpstreamAppend(t)
    /\ UNCHANGED <<clientVars, mergeVars, classVars>>
DoInitDatabase ==
    /\ \E drop_existing \in BOOLEAN : init_database(drop_existing)
    /\ UNCHANGED <<clientVars, mergeVars, classVars>>

Next ==
    \/ DoStartSync
    \/ DoFetchPage
    \/ DoFetchFail
    \/ DoProcessRecord
    \/ DoCommit
    \/ DoMetaUpdate
    \/ DoDbFail
    \/ DoKill
    \/ DoReturn
    \/ DoUpstreamAppend
    \/ DoInitDatabase

Spec == Init /\ [][Next]_vars

(***************************************************************************)
(* Default syncs against an upstream whose records are also modified:      *)
(* invocations without --limit, --dry-run, --vendors-only or               *)
(* --transactions-only, no failure                                         *)
(***************************************************************************)
DoStartPlainSync ==
    /\ \E full \in BOOLEAN : StartSync(FALSE, FALSE, full, 0, FALSE)
    /\ UNCHANGED <<clientVars, mergeVars, classVars>>
DoFetchWholePage == FetchPage(FALSE) /\ UNCHANGED <<clientVars, mergeVars, classVars>>
DoUpstreamModify ==
    /\ \E t \in Types, i \in Ids : UpstreamModify(t, i)
    /\ UNCHANGED <<clientVars, mergeVars, classVars>>

NextIncr ==
    \/ DoStartPlainSync
    \/ DoFetchWholePage
    \/ DoProcessRecord
    \/ DoCommit
    \/ DoMetaUpdate
    \/ DoReturn
    \/ DoUpstreamAppend
    \/ DoUpstreamModify
    \/ DoInitDatabase

SpecIncr == Init /\ [][NextIncr]_vars

(***************************************************************************)
(* Invocations with any options that nothing interrupts, against an        *)
(* upstream that answers every page request truthfully                     *)
(***************************************************************************)
NextFetch ==
    \/ DoStartSync
    \/ DoFetchWholePage
    \/ DoProcessRecord
    \/ DoCommit
    \/ DoMetaUpdate
    \/ DoReturn
    \/ DoUpstreamAppend
    \/ DoInitDatabase

SpecFetch == Init /\ [][NextFetch]_vars

(***************************************************************************)
(* Default syncs that nothing interrupts, against an upstream that appends *)
(* records and modifies the oldest record of a type between two of them    *)
(***************************************************************************)
DoModifyOldest ==
    /\ \E t \in Types : UpstreamModify(t, 1)
    /\ UNCHANGED <<clientVars, mergeVars, classVars>>

NextUpsert ==
    \/ DoStartPlainSync
    \/ DoFetchWholePage
    \/ DoProcessRecord
    \/ DoCommit
    \/ DoMetaUpdate
    \/ DoReturn
    \/ DoUpstreamAppend
    \/ DoModifyOldest
    \/ DoInitDatabase

SpecUpsert == Init /\ [][NextUpsert]_vars

(***************************************************************************)
(* The same invocations against an upstream whose hasMore flag is          *)
(* arbitrary; a started fetch loop keeps running                           *)
(***************************************************************************)
DoFetchPageAny ==
    /\ \E more \in BOOLEAN : FetchPageAny(more)
    /\ UNCHANGED <<clientVars, mergeVars, classVars>>

NextPaging ==
    \/ DoStartSync
    \/ DoFetchPageAny
    \/ DoProcessRecord
    \/ DoCommit
    \/ DoMetaUpdate
    \/ DoReturn
    \/ DoUpstreamAppend
    \/ DoInitDatabase

SpecPaging == Init /\ [][NextPaging]_vars /\ WF_vars(DoFetchPageAny)

(***************************************************************************)
(* The upsert of one record over consecutive syncs (cli/sync.py, the       *)
(* custom_fields it stores)                                                *)
(***************************************************************************)
\* the sync at sync_timestamp = now + gap fetched the record with the
\* custom fields new and stores merge_custom_fields(existing, new, ...)
StoreMerged(existing, new, gap) ==
    /\ nsyncs < MaxSyncs
    /\ nsyncs' = nsyncs + 1
    /\ now' = now + gap
    /\ payload' = new
    /\ prev' = existing
    /\ custom_fields' = merge_custom_fields(existing, new, now + gap)
    /\ firstSupplied' =
         [f \in Fields |-> IF firstSupplied[f] = -1 /\ f \in DOMAIN new
                           THEN now + gap ELSE firstSupplied[f]]
    /\ UNCHANGED initial

\* sync.py: the `else` branch, merge_custom_fields(None, custom_fields, ...)
InsertRecord(new, gap) ==
    /\ custom_fields = NoFields
    /\ StoreMerged(NoFields, new, gap)

\* sync.py: the `if existing` branch
UpdateRecord(new, gap) ==
    /\ custom_fields # NoFields
    /\ StoreMerged(custom_fields, new, gap)

InitMerge ==
    /\ authMethod = "tba"
    /\ max_retries = 1
    /\ retry_delay = 1
    /\ ClientQuiet
    /\ batch_size = 1
    /\ SyncQuiet
    /\ custom_fields \in InitialStores
    /\ now = 0
    /\ nsyncs = 0
    /\ payload = EmptyMap
    /\ prev = NoFields
    /\ initial = custom_fields
    /\ firstSupplied = [f \in Fields |-> -1]
    /\ ClassQuiet

DoInsertRecord ==
    /\ \E new \in Payloads, gap \in Gaps : InsertRecord(new, gap)
    /\ UNCHANGED <<clientVars, syncVars, classVars>>
DoUpdateRecord ==
    /\ \E new \in Payloads, gap \in Gaps : UpdateRecord(new, gap)
    /\ UNCHANGED <<clientVars, syncVars, classVars>>

NextMerge ==
    \/ DoInsertRecord
    \/ DoUpdateRecord

SpecMerge == InitMerge /\ [][NextMerge]_vars

(***************************************************************************)
(* The classifiers applied to one raw record                               *)
(***************************************************************************)
Classify(t) ==
    /\ ~classified
    /\ rtype = t
    /\ known' = process_fields(t, raw_data).known
    /\ custom' = process_fields(t, raw_data).custom
    /\ classified' = TRUE
    /\ UNCHANGED <<rtype, raw_data>>

InitClassify ==
    /\ authMethod = "tba"
    /\ max_retries = 1
    /\ retry_delay = 1
    /\ ClientQuiet
    /\ batch_size = 1
    /\ SyncQuiet
    /\ MergeQuiet
    /\ rtype \in Types
    /\ raw_data \in RawRecords(rtype)
    /\ known = [k \in {} |-> 0]
    /\ custom = [k \in {} |-> 0]
    /\ classified = FALSE

process_vendor_fields ==
    /\ Classify("vendor")
    /\ UNCHANGED <<clientVars, syncVars, mergeVars>>
process_vendor_bill_fields ==
    /\ Classify("vendorbill")
    /\ UNCHANGED <<clientVars, syncVars, mergeVars>>

NextClassify ==
    \/ process_vendor_fields
    \/ process_vendor_bill_fields

SpecClassify == InitClassify /\ [][NextClassify]_vars

(***************************************************************************)
(* Properties of the client                                                *)
(***************************************************************************)
IsHttp(e) == e.type = "http"
IsSleep(e) == e.type = "sleep"
IsAuth(e) == e.type = "auth"
HttpEvents == SelectSeq(events, IsHttp)
SleepEvents == SelectSeq(events, IsSleep)
AuthEvents == SelectSeq(events, IsAuth)
ViaRequest == req.op \in {"_request", "get_record", "query_records"}
RequestDone == rpc = "done" /\ ViaRequest
AllStatus(st) == \A i \in 1..Len(HttpEvents) : HttpEvents[i].status = st

\* C3: against an upstream that answers every attempt with a 5xx, request
\* makes exactly max_retries HTTP attempts and then fails with ConnectionError.
C3_RetryBound5xx ==
    (RequestDone /\ Len(HttpEvents) >= 1 /\ AllStatus("5xx"))
        => (Len(HttpEvents) = max_retries /\ result = "ConnectionError")

\* C4: a 4xx on the first attempt ends the request after exactly one HTTP
\* attempt, without any sleep, with the non-retryable ApiError.
C4_ClientErrorNotRetried ==
    (RequestDone /\ Len(HttpEvents) >= 1 /\ HttpEvents[1].status = "4xx")
        => /\ Len(HttpEvents) = 1
           /\ Len(SleepEvents) = 0
           /\ result = "ApiError"

C4_Witness ==
    /\ RequestDone /\ max_retries >= 2
    /\ Len(HttpEvents) = 1 /\ HttpEvents[1].status = "4xx"
    /\ result = "ApiError"

\* the attempts and sleeps of a request whose n attempts all fail, in order:
\* attempt, sleep d*1, attempt, sleep d*2, ..., attempt (no sleep at the end)
BackoffShape(n) ==
    /\ Len(events) = 2 * n
    /\ IsAuth(events[1])
    /\ \A k \in 1..n : IsHttp(events[2 * k])
    /\ \A k \in 1..(n - 1) :
          IsSleep(events[2 * k + 1]) /\ events[2 * k + 1].secs = retry_delay * k

\* C5: with every attempt failing on the network and max_retries = n >= 1,
\* request makes n attempts, sleeps retry_delay * (attempt + 1) after each
\* attempt but the last, then fails with ConnectionError wrapping the last
\* error; a 200 ends the request at once with the body.
C5_LinearBackoff ==
    /\ (RequestDone /\ max_retries >= 1 /\ Len(HttpEvents) >= 1
            /\ AllStatus("neterr"))
         => /\ Len(HttpEvents) = max_retries
            /\ BackoffShape(max_retries)
            /\ result = "ConnectionError"
            /\ last_error = "neterr"
    /\ \A i \in 1..Len(events) :
         (ViaRequest /\ IsHttp(events[i]) /\ events[i].status = "200")
            => (i = Len(events) /\ result = "ok" /\ rpc = "done")

C5_Witness ==
    /\ RequestDone /\ max_retries = 4 /\ Len(HttpEvents) = 4
    /\ AllStatus("neterr") /\ result = "ConnectionError"
    /\ Len(SleepEvents) = 3 /\ SleepEvents[3].secs = retry_delay * 3

\* C6 as stated: a non-GET request fails with ReadOnlyViolation before any
\* auth header or HTTP call, and the only non-GET HTTP call ever sent is the
\* POST that submits a bulk query.
C6_OnlyBulkPost ==
    /\ (RequestDone /\ Upper(req.method) # "GET")
          => (result = "ReadOnlyViolation" /\ events = <<>>)
    /\ \A w \in wire : w.method # "GET" => (w.method = "POST" /\ w.target = "suiteql")

\* C6 amended: a non-GET request fails with ReadOnlyViolation before any auth
\* header or HTTP call; the only non-GET HTTP calls ever sent are the POST
\* that submits a bulk query and, with the bearer-token provider only, the
\* POST of the token exchange.
C6_ReadOnly ==
    /\ (RequestDone /\ Upper(req.method) # "GET")
          => (result = "ReadOnlyViolation" /\ events = <<>>)
    /\ \A w \in wire : w.method # "GET" =>
          /\ w.method = "POST"
          /\ w.target \in {"suiteql", "token"}
          /\ w.target = "token" => authMethod = "oauth2"

C6_Witness ==
    /\ RequestDone /\ req.method = "DELETE" /\ result = "ReadOnlyViolation"
    /\ [method |-> "POST", target |-> "suiteql"] \in wire
    /\ [method |-> "POST", target |-> "token"] \in wire

\* C7: get_auth_headers is invoked once per outgoing HTTP request, so every
\* attempt of a request carries headers of its own call (a fresh nonce with
\* the signed-request provider).
C7_AuthPerAttempt ==
    ViaRequest =>
      /\ Len(AuthEvents) >= Len(HttpEvents)
      /\ authMethod = "tba" =>
            \A i, j \in 1..Len(HttpEvents) :
                i # j => HttpEvents[i].hdr.nonce # HttpEvents[j].hdr.nonce

(***************************************************************************)
(* Properties of the sync                                                  *)
(***************************************************************************)
\* the stored high-water mark of an entity type
Hwm(t) == MaxCreated(db[t])
\* row i of type t was committed by the running invocation
CommittedNow(t, i) ==
    db[t][i].present /\ db[t][i].synced_at = run.sync_timestamp
InRun == pc \in {"fetch", "process", "meta"} \/ (pc = "ended" /\ outcome = "ok")

\* C1: a non-dry-run sync of an entity type that fetches 0 records leaves the
\* type's SyncMetadata row as the prior run left it (and creates none); the
\* row is written only by a run that synced more than 0 records.
C1_EmptyFetchKeepsCursor ==
    \A t \in Types :
        /\ (InRun /\ ~run.dry_run /\ nFetched[t] = 0) => meta[t] = metaAtStart[t]
        /\ meta[t] # metaAtStart[t] =>
              /\ nFetched[t] > 0
              /\ ~run.dry_run
              /\ meta[t].records_synced = nFetched[t]

C1_Witness ==
    /\ pc = "ended" /\ outcome = "ok" /\ ~run.dry_run
    /\ "vendor" \in stagesRun /\ nFetched["vendor"] = 0
    /\ metaAtStart["vendor"].present
    /\ meta["vendor"] = metaAtStart["vendor"]
    /\ ~meta["vendorbill"].present /\ nFetched["vendorbill"] = 0

\* C2: across all steps of all sync invocations the stored high-water mark
\* of an entity type never decreases, and it advances only in a non-dry-run
\* sync of that type that fetched more than 0 records; the one step that
\* lowers it is init_database with drop_existing, which is no sync run.
C2_MonotonicCursor ==
    [][\A t \in Types :
          /\ \/ MaxCreated(db'[t]) >= MaxCreated(db[t])
             \/ init_database(TRUE)
          /\ MaxCreated(db'[t]) > MaxCreated(db[t]) =>
                (cur = t /\ nFetched[t] > 0 /\ ~run.dry_run)]_vars

C2_Witness ==
    /\ pc = "ended" /\ outcome = "ok" /\ clock = 2
    /\ hwmAtStart["vendor"] > 0
    /\ Hwm("vendor") > hwmAtStart["vendor"]

\* C8: records are persisted per page: when the next page is about to be
\* fetched, the records of the pages fetched so far are committed.
C8_PerBatchCommit ==
    (pc = "fetch" /\ ~run.dry_run) =>
        \A k \in 1..Len(fetched) : CommittedNow(cur, fetched[k])

\* C9: in an invocation that syncs both entity types, a failure of the
\* vendor sync does not keep the transaction sync from running.
C9_VendorFailureIsolated ==
    (/\ pc = "ended"
     /\ scope = Types
     /\ failedStage = "vendor"
     /\ outcome \in {"ApiError", "SQLAlchemyError"})
        => "vendorbill" \in stagesRun

\* C10: whenever records of the running invocation are committed for an
\* entity type, the type's SyncMetadata row is that of this invocation and
\* its records_synced is the number of records committed.
C10_CursorReflectsCommit ==
    \A t \in Types :
        (\E i \in Ids : CommittedNow(t, i)) =>
            /\ meta[t].present
            /\ meta[t].last_sync_timestamp = run.sync_timestamp
            /\ meta[t].records_synced = Cardinality({i \in Ids : CommittedNow(t, i)})

(***************************************************************************)
(* Properties of the custom-field merge                                    *)
(***************************************************************************)
\* a stored custom_fields value as a dict (None counts as {})
AsMap(cf) == IF cf = NoFields THEN EmptyMap ELSE cf
\* the entry carries the four lifecycle keys
HasMeta(entry) == entry.isdict /\ entry.keys = MetaKeys
\* half days between the last sync and the last_seen of an entry
SinceSeen(entry) == now - fromisoformat(entry.last_seen)
\* the fields the last sync found stored and did not supply
Missing == DOMAIN AsMap(prev) \ DOMAIN payload

\* C11: for every stored custom_fields the program reaches (None, legacy flat
\* values, entries), every payload n and every time t, merging n at t into
\* the result of merging n at t gives that result again.
C11_IdempotentMerge ==
    \A n \in Payloads, gap \in Gaps \cup {0} :
        LET once == merge_custom_fields(custom_fields, n, now + gap)
        IN merge_custom_fields(once, n, now + gap) = once

C11_Witness ==
    /\ nsyncs = 2
    /\ initial # NoFields /\ "region" \in DOMAIN initial
    /\ ~initial["region"].isdict
    /\ "region" \notin DOMAIN payload /\ "tier" \in DOMAIN payload
    /\ custom_fields["region"].deprecated
    /\ custom_fields["tier"].first_seen # custom_fields["tier"].last_seen
    /\ merge_custom_fields(custom_fields, payload, now) = custom_fields

\* C12: a sync stores an entry for exactly the union of the stored and the
\* supplied field names, so no stored name is ever removed; an entry whose
\* field the payload lacks keeps its value, first_seen and last_seen.
C12_HistoryKept ==
    nsyncs > 0 =>
        /\ DOMAIN custom_fields = DOMAIN AsMap(prev) \cup DOMAIN payload
        /\ \A f \in Missing :
              /\ custom_fields[f].value = prev[f].value
              /\ HasMeta(prev[f]) =>
                    /\ custom_fields[f].first_seen = prev[f].first_seen
                    /\ custom_fields[f].last_seen = prev[f].last_seen

C12_Witness ==
    /\ nsyncs = 3
    /\ initial = NoFields
    /\ payload = EmptyMap
    /\ DOMAIN custom_fields = Fields
    /\ custom_fields["region"].value = "East"
    /\ custom_fields["region"].first_seen # custom_fields["region"].last_seen
    /\ custom_fields["region"].last_seen # isoformat(now)

\* C13: a supplied field is stored as {value: new[name], last_seen: now,
\* deprecated: false, first_seen: the stored first_seen if there is one, else
\* now}; for a record first stored by a sync, first_seen of a field is the
\* time of the first sync that supplied the field.
C13_PresentEntry ==
    nsyncs > 0 =>
        /\ \A f \in DOMAIN payload :
              custom_fields[f] =
                  FieldEntry(payload[f],
                             IF /\ f \in DOMAIN AsMap(prev)
                                /\ prev[f].isdict
                                /\ "first_seen" \in prev[f].keys
                             THEN prev[f].first_seen
                             ELSE isoformat(now),
                             isoformat(now), FALSE)
        /\ initial = NoFields =>
              \A f \in DOMAIN custom_fields :
                  custom_fields[f].first_seen = isoformat(firstSupplied[f])

C13_Witness ==
    /\ nsyncs = 2
    /\ initial = NoFields
    /\ prev # NoFields /\ DOMAIN prev = {"region"}
    /\ prev["region"].value = "West"
    /\ payload = [f \in Fields |-> IF f = "region" THEN "East" ELSE "A"]
    /\ custom_fields["region"].value = "East"
    /\ custom_fields["region"].first_seen = prev["region"].first_seen
    /\ custom_fields["region"].first_seen # isoformat(now)
    /\ custom_fields["tier"].first_seen = isoformat(now)

\* C14: a field with metadata that the payload lacks 31 days (or more) after
\* its last_seen is stored deprecated with its value retained; a deprecated
\* field that the payload supplies again is stored with deprecated = false
\* and last_seen = the time of this sync.
C14_DeprecateAndRevive ==
    nsyncs > 0 =>
        /\ \A f \in Missing :
              (HasMeta(prev[f]) /\ SinceSeen(prev[f]) >= 62) =>
                  /\ custom_fields[f].deprecated
                  /\ custom_fields[f].value = prev[f].value
        /\ \A f \in DOMAIN payload :
              (f \in DOMAIN AsMap(prev) /\ prev[f].deprecated) =>
                  /\ ~custom_fields[f].deprecated
                  /\ custom_fields[f].last_seen = isoformat(now)

\* sync 3 of the scenario: region was supplied by sync 1, found missing 31
\* days later by sync 2, and is supplied again
C14_Witness ==
    /\ nsyncs = 3
    /\ initial = NoFields
    /\ "region" \in DOMAIN payload
    /\ prev # NoFields /\ "region" \in DOMAIN prev
    /\ prev["region"].deprecated
    /\ fromisoformat(prev["region"].last_seen) = firstSupplied["region"]
    /\ ~custom_fields["region"].deprecated
    /\ custom_fields["region"].last_seen = isoformat(now)
    /\ now - firstSupplied["region"] >= 62

\* C15 as stated: a field with metadata that the payload lacks is stored
\* deprecated once 30 days or more have passed since its last_seen.
C15_DeprecatedAt30Days ==
    nsyncs > 0 =>
        \A f \in Missing :
            (HasMeta(prev[f]) /\ SinceSeen(prev[f]) >= 60) =>
                custom_fields[f].deprecated

\* C15 amended: a field with metadata that the payload lacks becomes
\* deprecated once 31 whole days have passed since its last_seen; before
\* that (exactly 30 days, 30 days and 12 hours) its flag stays as it was.
C15_DeprecatedAfter30Days ==
    nsyncs > 0 =>
        \A f \in Missing :
            HasMeta(prev[f]) =>
                custom_fields[f].deprecated =
                    (prev[f].deprecated \/ SinceSeen(prev[f]) >= 62)

C15_Witness ==
    /\ nsyncs = 2
    /\ "region" \in Missing
    /\ HasMeta(prev["region"])
    /\ ~prev["region"].deprecated
    /\ SinceSeen(prev["region"]) = 60
    /\ ~custom_fields["region"].deprecated

(***************************************************************************)
(* Further properties of the sync and of the bearer-token provider         *)
(***************************************************************************)
\* the upstream records of type t created at or after the stamp
CreatedSince(t, stamp) ==
    {i \in 1..upstreamN[t] : Stamp(Created(i)) >= stamp}
\* the set of records the bulk query of type t selects in this invocation
Selected(t) ==
    LET q == QueryResult(t, run.max_created[t])
    IN {q[k] : k \in 1..Len(q)}

\* C16: with --full the cursor is none and the query selects every upstream
\* record; otherwise, with no row stored, the cursor is none as well (implicit
\* full sync); otherwise the cursor is the day of MAX(created_date) over the
\* stored rows and the query selects every upstream record created at or
\* after that MAX (the record of the MAX included).
C16_DeterminingCursor ==
    \A t \in Types :
        (InRun /\ t \in scope) =>
            /\ (run.full \/ hwmAtStart[t] = 0) =>
                  /\ run.max_created[t] = 0
                  /\ Selected(t) = 1..upstreamN[t]
            /\ (~run.full /\ hwmAtStart[t] > 0) =>
                  /\ run.max_created[t] # 0
                  /\ run.max_created[t] * 24 <= hwmAtStart[t]
                  /\ hwmAtStart[t] < run.max_created[t] * 24 + 24
                  /\ CreatedSince(t, hwmAtStart[t]) \subseteq Selected(t)

C16_Witness ==
    /\ pc = "ended" /\ outcome = "ok"
    /\ ~run.full /\ ~run.dry_run /\ run.limit = 0
    /\ hwmAtStart["vendor"] > 0
    /\ run.max_created["vendor"] # 0
    /\ nFetched["vendor"] >= 2
    /\ Hwm("vendor") > hwmAtStart["vendor"]

\* C17: when a default (non --full) sync has completed, every upstream
\* record, created or modified since the previous sync, is stored with the
\* upstream's last modification.
C17_IncrementalCoversModified ==
    (pc = "ended" /\ outcome = "ok" /\ ~run.full) =>
        \A t \in Types : \A i \in 1..upstreamN[t] :
            /\ db[t][i].present
            /\ db[t][i].last_modified_date = upstreamMod[t][i]

\* C18: no step of a dry-run invocation changes a row of the record tables
\* or of sync_metadata, and a dry run never enters the storing code.
C18_DryRunStoresNothing ==
    [][run.dry_run =>
          /\ db' = db
          /\ meta' = meta
          /\ pc' \notin {"process", "meta"}]_vars

C18_Witness ==
    /\ pc = "ended" /\ outcome = "ok" /\ run.dry_run
    /\ stagesRun = Types
    /\ nFetched["vendor"] >= 2 /\ nFetched["vendorbill"] >= 1
    /\ db = [t \in Types |-> EmptyTable]
    /\ meta = [t \in Types |-> NoMeta]

\* C19: an invocation that a failure stopped ends with one of the typed
\* errors of the application.
C19_TypedErrors ==
    (pc = "ended" /\ outcome \notin {"ok", "killed"}) =>
        outcome \in {"ConnectionError", "ApiError", "ReadOnlyViolation",
                     "DatabaseError", "ConfigurationError"}

\* C20: with the bearer-token provider, a call of get_auth_headers makes a
\* token exchange exactly when no token is cached or the time is at or past
\* the cached token's expiry minus 60 s; otherwise it returns the cached
\* token; a new token replaces the cached one.
C20_TokenRefresh ==
    [][(authMethod = "oauth2" /\ authCalls' = authCalls + 1) =>
          LET needed == IF token = NoToken THEN TRUE
                        ELSE time >= token.expires_at - 60
              exchanged == tokenSeq' = tokenSeq + 1 \/ headers' = NoHeaders
          IN /\ exchanged <=> needed
             /\ ~needed => /\ token' = token
                           /\ headers'.nonce = token.access_token
             /\ tokenSeq' = tokenSeq + 1 =>
                   /\ token' # token
                   /\ token'.access_token = tokenSeq'
                   /\ token'.expires_at > time
                   /\ headers'.nonce = token'.access_token]_vars

C20_Witness ==
    /\ authMethod = "oauth2"
    /\ rpc = "done" /\ result = "ok"
    /\ authCalls = 2 /\ tokenSeq = 2
    /\ token # NoToken /\ headers # NoHeaders
    /\ token.access_token = 2 /\ headers.nonce = 2
    /\ time >= 30

(***************************************************************************)
(* Properties of the field classification                                  *)
(***************************************************************************)
\* the allow-list name a spelling stands for (the spelling itself when it
\* stands for none)
CanonName(t, k) ==
    IF \E c \in KnownFields(t) : Lower(c) = Lower(k)
    THEN CHOOSE c \in KnownFields(t) : Lower(c) = Lower(k)
    ELSE k
\* two raw records that differ only in the spelling of known field names
SameUpToSpelling(t, r1, r2) ==
    /\ {CanonName(t, k) : k \in DOMAIN r1} = {CanonName(t, k) : k \in DOMAIN r2}
    /\ \A k1 \in DOMAIN r1, k2 \in DOMAIN r2 :
          CanonName(t, k1) = CanonName(t, k2) =>
              /\ r1[k1] = r2[k2]
              /\ (k1 # k2 => CanonName(t, k1) \in KnownFields(t))

\* C21: a raw record whose field names are all in the allow-list of its type
\* is classified into an empty custom map and a known map with one entry for
\* every field of the input.
C21_KnownRoundTrip ==
    (classified /\ DOMAIN raw_data \subseteq KnownFields(rtype)) =>
        /\ custom = EmptyMap
        /\ Cardinality(DOMAIN known) = Cardinality(DOMAIN raw_data)

\* C22: two raw records that differ only in the spelling (lowercase or
\* camelCase) of known field names are classified into the same known and
\* custom maps.
C22_SpellingInsensitive ==
    classified =>
        \A r2 \in RawRecords(rtype) :
            SameUpToSpelling(rtype, raw_data, r2) =>
                process_fields(rtype, r2) = [known |-> known, custom |-> custom]

(***************************************************************************)
(* Further properties of the custom-field merge                            *)
(***************************************************************************)
\* C23: a field with metadata that the payload lacks keeps its value,
\* first_seen and last_seen and is stored deprecated whenever more than 30
\* days (30 days and some hours count) have passed since its last_seen,
\* otherwise its flag stays as it was; a legacy value without metadata
\* becomes {value, first_seen: now, last_seen: now, deprecated: true}.
C23_DeprecatedPast30Days ==
    nsyncs > 0 =>
        \A f \in Missing :
            IF HasMeta(prev[f])
            THEN custom_fields[f] =
                     [prev[f] EXCEPT !.deprecated =
                         prev[f].deprecated \/ SinceSeen(prev[f]) > 60]
            ELSE custom_fields[f] =
                     FieldEntry(prev[f].value, isoformat(now),
                                isoformat(now), TRUE)

\* C24: after any number of syncs at non-decreasing times, every stored
\* entry with lifecycle metadata has first_seen <= last_seen.
C24_FirstSeenBeforeLastSeen ==
    \A f \in DOMAIN AsMap(custom_fields) :
        HasMeta(custom_fields[f]) =>
            fromisoformat(custom_fields[f].first_seen)
                <= fromisoformat(custom_fields[f].last_seen)

\* region was supplied, then missing for 31 days, then supplied again
\* together with a tier never seen before
C24_Witness ==
    /\ nsyncs = 3
    /\ payload = [f \in Fields |-> IF f = "region" THEN "East" ELSE "A"]
    /\ prev # NoFields /\ DOMAIN prev = {"region"}
    /\ prev["region"].deprecated
    /\ custom_fields["region"].first_seen = prev["region"].first_seen
    /\ fromisoformat(custom_fields["region"].first_seen) + 62
           <= fromisoformat(custom_fields["region"].last_seen)
    /\ custom_fields["tier"].first_seen = custom_fields["tier"].last_seen

(***************************************************************************)
(* Further properties of the sync: upsert, paging, aborted batches         *)
(***************************************************************************)
\* the ids of the fetched records
FetchedIds == {fetched[k] : k \in 1..Len(fetched)}
\* the number of rows of a table
RowCount(table) == Cardinality({i \in Ids : table[i].present})

\* C25: the commit of a non-dry-run sync leaves one row for every fetched id
\* (the row it had, updated in place, or a new one), with raw_data = the
\* payload fetched for the id and schema_version = the version tag of the
\* run; rows of other ids are untouched, and the only rows added are those
\* of fetched ids that had none, so a repeated run adds no row.
C25_UpsertById ==
    [][(pc = "process" /\ pc' # "process") =>
          /\ \A i \in FetchedIds :
                /\ db'[cur][i].present
                /\ db'[cur][i].raw_data = upstreamMod[cur][i]
                /\ db'[cur][i].schema_version = run.sync_timestamp
          /\ \A i \in Ids \ FetchedIds : db'[cur][i] = db[cur][i]
          /\ RowCount(db'[cur]) =
                RowCount(db[cur])
                  + Cardinality({i \in FetchedIds : ~db[cur][i].present})]_vars

\* the second sync found vendor 1 stored, modified upstream since, and
\* vendor 2 new: row 1 is updated in place, row 2 inserted
C25_Witness ==
    /\ pc = "ended" /\ outcome = "ok" /\ clock = 2
    /\ run.limit = 0 /\ ~run.full
    /\ hwmAtStart["vendor"] = Stamp(Created(1))
    /\ nFetched["vendor"] = 2
    /\ RowCount(db["vendor"]) = 2
    /\ upstreamMod["vendor"][1] = 1
    /\ db["vendor"][1].raw_data = 1
    /\ db["vendor"][1].schema_version = run.sync_timestamp
    /\ db["vendor"][2].schema_version = run.sync_timestamp

\* C27: while the records of a batch are processed the stored rows do not
\* change, and when the processing or the commit fails (a store error, or the
\* process dies) the store is left as it was: with the first, the store
\* after the failure is the store from before the batch began.
C27_NoPartialCommit ==
    [][pc = "process" =>
          /\ pc' = "process" => db' = db
          /\ (pc' = "ended" /\ outcome' \in {"SQLAlchemyError", "killed"}) =>
                db' = db]_vars

\* the second sync had updated vendor 1 and inserted vendor 2 in its session
\* when the store failed: row 1 is that of the first sync, row 2 is not there
C27_Witness ==
    /\ pc = "ended" /\ outcome = "SQLAlchemyError" /\ clock = 2
    /\ failedStage = "vendor"
    /\ procIdx >= 2
    /\ upstreamN["vendor"] >= 2
    /\ db["vendor"][1].present
    /\ db["vendor"][1].synced_at = 1
    /\ ~db["vendor"][2].present

\* the stored rows of type t are those of the first k upstream records
IsPrefix(t) ==
    \A i \in Ids : db[t][i].present =>
        /\ i <= upstreamN[t]
        /\ \A j \in 1..i : db[t][j].present
\* the query of a default sync started now selects upstream record i
NextRunSelects(t, i) ==
    \E k \in 1..Len(QueryResult(t, Cursor(db[t]))) :
        QueryResult(t, Cursor(db[t]))[k] = i

\* C28: starting from an empty store, after any invocations (limited or not,
\* full or not, completed, failed or killed) against an upstream that only
\* appends, the stored rows of a type are a prefix of the upstream records in
\* creation order, and the query of the next default sync selects every
\* upstream record that is not stored.
C28_ContiguousPrefix ==
    \A t \in Types :
        /\ IsPrefix(t)
        /\ \A i \in 1..upstreamN[t] :
              ~db[t][i].present => NextRunSelects(t, i)

\* a first sync limited to 1 record, a second limited to 2: vendors 1 and 2
\* of 3 are stored, vendor 3 is selected by the next query
C28_Witness ==
    /\ pc = "ended" /\ outcome = "ok" /\ clock = 2
    /\ ~run.full /\ run.limit = 2
    /\ hwmAtStart["vendor"] = Stamp(Created(1))
    /\ upstreamN["vendor"] = 3
    /\ db["vendor"][2].present
    /\ ~db["vendor"][3].present
    /\ Cursor(db["vendor"]) = 1
    /\ NextRunSelects("vendor", 3)

\* the result set of the running fetch and the number of records it is to
\* return: all of them, or the first `limit`
Result == QueryResult(cur, run.max_created[cur])
Wanted == IF run.limit = 0 THEN Len(Result) ELSE Min2(run.limit, Len(Result))
\* the step continues the fetch loop of the running sync
StaysInLoop == pc' = "fetch" /\ cur' = cur /\ run' = run

\* C26: against a truthful upstream the fetch requests the offsets 0, b,
\* 2b, ...: at each request the records fetched so far are the first
\* `offset` records of the result set, in its order; the next request is
\* at offset + b and is made only while records remain and the limit is not
\* reached; the loop returns the first min(limit, N) records of the result
\* set, all N without a limit.
C26_PagedFetch ==
    [][pc = "fetch" =>
          /\ offset % batch_size = 0
          /\ fetched = SubSeq(Result, 1, offset)
          /\ StaysInLoop =>
                /\ offset' = offset + batch_size
                /\ offset' < Len(Result)
                /\ run.limit # 0 => offset' < run.limit
          /\ ~StaysInLoop =>
                /\ nFetched'[cur] = Wanted
                /\ pc' = "process" => fetched' = SubSeq(Result, 1, Wanted)]_vars

\* a full sync without limit fetched three vendors in pages of 2, at the
\* offsets 0 and 2; two of them were stored before
C26_Witness ==
    /\ pc = "process" /\ batch_size = 2
    /\ run.limit = 0 /\ run.full
    /\ offset = 2
    /\ fetched = <<1, 2, 3>>
    /\ nFetched["vendor"] = 3
    /\ RowCount(db["vendor"]) = 2

\* C29 as stated: a default sync with a limit of at least 1 that completes,
\* of a type with upstream records not yet stored, raises the stored
\* high-water mark of the type (it stores a record not stored before).
C29_LimitedProgress ==
    \A t \in Types :
        (/\ pc = "ended" /\ outcome = "ok"
         /\ ~run.full /\ ~run.dry_run /\ run.limit >= 1
         /\ t \in scope
         /\ upstreamN[t] >= 1
         /\ hwmAtStart[t] < Stamp(Created(upstreamN[t])))
            => Hwm(t) > hwmAtStart[t]

\* the number of page requests a result set of n records may take
MaxRequestsFor(n) == (n + batch_size - 1) \div batch_size + 1

\* C30: whatever the hasMore flags, the fetch loop ends: from every request
\* the sync goes on to return its records; the offset of a request is a
\* multiple of b and the request is at most number ceil(N/b) + 1; the next
\* request of the loop is at offset + b, so no offset is requested twice.
C30_FetchTerminates ==
    /\ [](pc = "fetch" =>
            /\ offset % batch_size = 0
            /\ offset \div batch_size + 1 <= MaxRequestsFor(Len(Result)))
    /\ [][(pc = "fetch" /\ StaysInLoop) => offset' = offset + batch_size]_vars
    /\ \A t \in Types : (pc = "fetch" /\ cur = t) ~> (nFetched[t] >= 0)

\* three vendors in pages of 1 with hasMore true throughout: the fourth
\* request, at offset 3, found no items
C30_Witness ==
    /\ pc = "process" /\ batch_size = 1
    /\ run.limit = 0
    /\ Len(fetched) = 3
    /\ offset = 3
    /\ offset \div batch_size + 1 = MaxRequestsFor(3)

=============================================================================
